---- MODULE Spec2Model ----
(***************************************************************************)
(* Model of src/main.py: the paginated fetch loop of                       *)
(* get_recent_pulls_of_repo against a pull-request list endpoint, and the  *)
(* main block that renders the digest, calls the text-generation service  *)
(* and writes the report.                                                  *)
(*                                                                         *)
(* Timestamps are instants on a small integer line.  A created_at string  *)
(* of the endpoint is the pair of an instant and its zone suffix ("Z").    *)
(* Fields of a pull request that the loop only copies (title, state,      *)
(* updated_at, user, labels, body) are not represented.                    *)
(***************************************************************************)
EXTENDS Integers, Sequences, FiniteSets, TLC

\* ---- bounds of the model ----
MaxServer == 4      \* longest pull-request list held by the server
MaxTime == 2        \* instants are 0..MaxTime
per_page == 2       \* params['per_page'] (50 in the source), scaled down

\* ---- program constants ----
MAX_RETRIES == 5            \* retries = 5
RETRY_SLEEP == 500          \* time.sleep(5), in centiseconds
PAGE_SLEEP == 800           \* the 8 of time.sleep(8 + len(all_pulls)/100), in centiseconds
OK == 200                   \* response.status_code != 200
FailureCodes == {403, 500}  \* status codes other than 200 sent by the endpoint

VARIABLES
    server,         \* the endpoint's pull-request list, in the order it serves it
    since_time,     \* since_time, computed once before the loop
    page,           \* params['page']
    retries,        \* retries
    all_pulls,      \* all_pulls
    response,       \* response.status_code of the last response received (0: none yet)
    pulls,          \* pulls, the parsed body of the last 200 response
    recent_pulls,   \* recent_pulls, the records kept from pulls
    requests,       \* log of the requests issued: page number and outcome
    sleeps,         \* log of the time.sleep calls, in centiseconds
    pc,             \* "fetch": at the top of the while loop; "returned": the function returned
    result,         \* the value returned by get_recent_pulls_of_repo
    main,           \* position of the main block: "fetch", "ai", "write", "exit", "fault"
    stdout,         \* the lines printed by the main block, in order
    exit_status,    \* the exit status of the process (-1: still running)
    summary_string, \* summary_string, as its sequence of lines
    ai_calls,       \* number of calls of summarize_prs_by_ai
    ai_analysis,    \* ai_analysis ("": not assigned)
    fs              \* the file system: the directories and the report file of today

fetchvars == <<server, since_time, page, retries, all_pulls, response, pulls,
               recent_pulls, requests, sleeps, pc, result>>

mainvars == <<main, stdout, exit_status, summary_string, ai_calls, ai_analysis, fs>>

vars == <<server, since_time, page, retries, all_pulls, response, pulls,
          recent_pulls, requests, sleeps, pc, result,
          main, stdout, exit_status, summary_string, ai_calls, ai_analysis, fs>>

Times == 0..MaxTime

\* ---- helpers ----

\* the created_at string of the endpoint: ISO-8601, UTC, Z-suffixed
IsoZ(t) == [instant |-> t, zone |-> "Z"]

\* pull['created_at'].replace('Z', '+00:00')
ReplaceZ(s) == [instant |-> s.instant, zone |-> IF s.zone = "Z" THEN "+00:00" ELSE s.zone]

\* datetime.fromisoformat on a string with a zero UTC offset: the instant it names
fromisoformat(s) == s.instant

\* created_at = datetime.fromisoformat(pull['created_at'].replace('Z', '+00:00'))
created_at_of(pull) == fromisoformat(ReplaceZ(pull.created_at))

\* a comparison that drops a pull created exactly at since_time
InWindowStrict(pull, since) == created_at_of(pull) > since

\* if created_at >= since_time
InWindow(pull, since) == created_at_of(pull) >= since

\* the record appended to recent_pulls for one pull
Record(pull) == [number |-> pull.number, created_at |-> pull.created_at]

\* a scan that keeps every pull of the page
RECURSIVE ScanPullsAll(_, _)
ScanPullsAll(ps, since) ==
    IF ps = <<>> THEN <<>>
    ELSE <<Record(Head(ps))>> \o ScanPullsAll(Tail(ps), since)

\* a scan that skips an older pull and goes on with the rest of the page
RECURSIVE ScanPullsFilter(_, _)
ScanPullsFilter(ps, since) ==
    IF ps = <<>> THEN <<>>
    ELSE IF InWindow(Head(ps), since)
         THEN <<Record(Head(ps))>> \o ScanPullsFilter(Tail(ps), since)
         ELSE ScanPullsFilter(Tail(ps), since)

\* the for loop over pulls: keep records until the first older pull, then break
RECURSIVE ScanPulls(_, _)
ScanPulls(ps, since) ==
    IF ps = <<>> THEN <<>>
    ELSE IF InWindow(Head(ps), since)
         THEN <<Record(Head(ps))>> \o ScanPulls(Tail(ps), since)
         ELSE <<>>

\* a stop test that also fires on a page kept in full
StopAfterPageAlways(recent, ps) == Len(recent) <= Len(ps)

\* a stop test that compares with the page size instead of the page
StopAfterPageShort(recent, ps) == Len(recent) < per_page

\* a stop test that never fires
StopAfterPageNever(recent, ps) == FALSE

\* if len(recent_pulls) < len(pulls): break
StopAfterPage(recent, ps) == Len(recent) < Len(ps)

\* if not pulls: break
NoMoreData(ps) == ps = <<>>

\* an accumulation that puts the new records first
ExtendFront(all, recent) == recent \o all

\* all_pulls.extend(recent_pulls)
Extend(all, recent) == all \o recent

\* a page counter that does not advance
NextPageSame(p) == p

\* a page counter that skips a page
NextPageSkip(p) == p + 2

\* params['page'] += 1
NextPage(p) == p + 1

\* a retry test that allows one more attempt
CanRetryAtZero(r) == r >= 0

\* if retries > 0
CanRetry(r) == r > 0

\* a return that drops the accumulated records
ReturnNothing(all) == <<>>

\* return all_pulls
Return(all) == all

\* an exception handler that returns the accumulated records
ErrorReturnPartial(all) == all

\* except ...: return []
ErrorReturn(all) == <<>>

\* the body served for ?per_page=..&page=p: the p-th slice of the list
PageOf(list, p) ==
    LET lo == (p - 1) * per_page + 1
        hi == IF p * per_page < Len(list) THEN p * per_page ELSE Len(list)
    IN  IF lo > Len(list) THEN <<>> ELSE SubSeq(list, lo, hi)

\* retries -= 1
DecrementRetries(r) == r - 1

\* a success path that leaves the retry counter as it is
ResetRetriesKeep(r) == r

\* retries = 5  # Reset retries on success
ResetRetries(r) == MAX_RETRIES

\* a pause between pages that does not grow
PageSleepFlat(n) == PAGE_SLEEP

\* time.sleep(8 + len(all_pulls)/100), in centiseconds
PageSleep(n) == PAGE_SLEEP + n

\* a test of the fetched sequence that never takes the early exit
NoRecentPullsNever(recent) == FALSE

\* if not recent_pulls
NoRecentPulls(recent) == recent = <<>>

\* get_pulls_summary_as_string: the header line, then the lines of each pull
\* numbered from 1 in the order received
get_pulls_summary_as_string(ps) ==
    <<<<"There are", Len(ps), "pull requests recently:">>>> \o
    [i \in 1..Len(ps) |-> <<i, "PR #", ps[i].number, "Created at:", ps[i].created_at>>]

\* the texts the text-generation service answers with
AITexts == {"digest"}

\* a failure of the text-generation call that is swallowed: the run goes on
AIFaultSwallowed == "write"

\* an exception raised by summarize_prs_by_ai is not caught: the run ends
AIFault == "fault"

\* os.makedirs("reports"), os.makedirs(report_dir), both with exist_ok=True
ReportDirs == {"reports", "reports/owner_repo"}

\* the text written to the report file: header line, ai_analysis, newline
ReportText(analysis) == <<"# AI Analysis of Pull Requests", analysis, "\n">>

\* the file systems a run can start with: nothing there, or the directories
\* and a report written earlier on the same date
InitialFileSystems ==
    { [dirs |-> {}, report |-> <<>>],
      [dirs |-> ReportDirs, report |-> ReportText("earlier")] }

\* the lists the server can hold: numbers are given in creation order, so the
\* entry at position i of a list of length n has number n - i + 1
ServerLists ==
    UNION { { [i \in 1..n |-> [number |-> n - i + 1, created_at |-> IsoZ(f[i])]] :
              f \in [1..n -> Times] } : n \in 0..MaxServer }

\* ---- the program ----

Init ==
    /\ server \in ServerLists
    /\ since_time \in 1..MaxTime
    /\ page = 1
    /\ retries = MAX_RETRIES
    /\ all_pulls = <<>>
    /\ response = 0
    /\ pulls = <<>>
    /\ recent_pulls = <<>>
    /\ requests = <<>>
    /\ sleeps = <<>>
    /\ pc = "fetch"
    /\ result = <<>>
    /\ main = "fetch"
    /\ stdout = <<>>
    /\ exit_status = -1
    /\ summary_string = <<>>
    /\ ai_calls = 0
    /\ ai_analysis = ""
    /\ fs \in InitialFileSystems

\* one iteration whose response has a status code other than 200 (lines 49-62)
NonOK ==
    /\ pc = "fetch"
    /\ \E code \in FailureCodes : response' = code
    /\ requests' = Append(requests, [page |-> page, outcome |-> "non200"])
    /\ retries' = DecrementRetries(retries)
    /\ IF CanRetry(retries')
       THEN /\ sleeps' = Append(sleeps, RETRY_SLEEP)
            /\ pc' = "fetch"
            /\ result' = result
       ELSE /\ sleeps' = sleeps
            /\ pc' = "returned"
            /\ result' = Return(all_pulls)
    /\ UNCHANGED <<server, since_time, page, all_pulls, pulls, recent_pulls>>
    /\ UNCHANGED mainvars

\* one iteration whose request raises requests.exceptions.RequestException (lines 49, 105-107)
TransportError ==
    /\ pc = "fetch"
    /\ requests' = Append(requests, [page |-> page, outcome |-> "transport"])
    /\ pc' = "returned"
    /\ result' = ErrorReturn(all_pulls)
    /\ UNCHANGED <<server, since_time, page, retries, all_pulls, response, pulls,
                   recent_pulls, sleeps>>
    /\ UNCHANGED mainvars

\* one iteration whose 200 response has a body that is not JSON (lines 49-66, 108-110)
MalformedBody ==
    /\ pc = "fetch"
    /\ response' = OK
    /\ requests' = Append(requests, [page |-> page, outcome |-> "badjson"])
    /\ retries' = ResetRetries(retries)
    /\ pc' = "returned"
    /\ result' = ErrorReturn(all_pulls)
    /\ UNCHANGED <<server, since_time, page, all_pulls, pulls, recent_pulls, sleeps>>
    /\ UNCHANGED mainvars

\* one iteration whose 200 response carries the requested page (lines 49-103)
Page200 ==
    /\ pc = "fetch"
    /\ response' = OK
    /\ requests' = Append(requests, [page |-> page, outcome |-> "200"])
    /\ retries' = ResetRetries(retries)
    /\ pulls' = PageOf(server, page)
    /\ IF NoMoreData(pulls')
       THEN /\ pc' = "returned"
            /\ result' = Return(all_pulls)
            /\ UNCHANGED <<page, all_pulls, recent_pulls, sleeps>>
       ELSE /\ recent_pulls' = ScanPulls(pulls', since_time)
            /\ all_pulls' = Extend(all_pulls, recent_pulls')
            /\ IF StopAfterPage(recent_pulls', pulls')
               THEN /\ pc' = "returned"
                    /\ result' = Return(all_pulls')
                    /\ UNCHANGED <<page, sleeps>>
               ELSE /\ page' = NextPage(page)
                    /\ sleeps' = Append(sleeps, PageSleep(Len(all_pulls')))
                    /\ pc' = "fetch"
                    /\ result' = result
    /\ UNCHANGED <<server, since_time>>
    /\ UNCHANGED mainvars

\* the fetch returned an empty sequence: print and sys.exit(0) (lines 169-172)
MainNoPulls ==
    /\ main = "fetch"
    /\ pc = "returned"
    /\ NoRecentPulls(result)
    /\ stdout' = Append(stdout, "No recent pull requests found.")
    /\ exit_status' = 0
    /\ main' = "exit"
    /\ UNCHANGED <<summary_string, ai_calls, ai_analysis, fs>>
    /\ UNCHANGED fetchvars

\* the fetch returned records: print their number, render the digest (lines 169-176)
MainDigest ==
    /\ main = "fetch"
    /\ pc = "returned"
    /\ ~NoRecentPulls(result)
    /\ stdout' = Append(stdout, "Number of recent pulls:")
    /\ summary_string' = get_pulls_summary_as_string(result)
    /\ main' = "ai"
    /\ UNCHANGED <<exit_status, ai_calls, ai_analysis, fs>>
    /\ UNCHANGED fetchvars

\* summarize_prs_by_ai returns a text, which is printed (lines 179-181)
AIReturns ==
    /\ main = "ai"
    /\ ai_calls' = ai_calls + 1
    /\ ai_analysis' \in AITexts
    /\ stdout' = stdout \o <<"AI Analysis of Recent Pull Requests:", ai_analysis'>>
    /\ main' = "write"
    /\ UNCHANGED <<exit_status, summary_string, fs>>
    /\ UNCHANGED fetchvars

\* summarize_prs_by_ai raises: nothing catches it, the process ends with
\* a traceback and status 1 (line 179)
AIFails ==
    /\ main = "ai"
    /\ ai_calls' = ai_calls + 1
    /\ main' = AIFault
    /\ exit_status' = IF main' = "fault" THEN 1 ELSE exit_status
    /\ UNCHANGED <<stdout, summary_string, ai_analysis, fs>>
    /\ UNCHANGED fetchvars

\* the directories are made and the report file is written, replacing a
\* report of the same date; the run ends normally (lines 184-194)
WriteReport ==
    /\ main = "write"
    /\ fs' = [dirs |-> fs.dirs \cup ReportDirs, report |-> ReportText(ai_analysis)]
    /\ stdout' = Append(stdout, "Report saved to")
    /\ exit_status' = 0
    /\ main' = "exit"
    /\ UNCHANGED <<summary_string, ai_calls, ai_analysis>>
    /\ UNCHANGED fetchvars

Next ==
    \/ NonOK \/ TransportError \/ MalformedBody \/ Page200
    \/ MainNoPulls \/ MainDigest \/ AIReturns \/ AIFails \/ WriteReport

Spec == Init /\ [][Next]_vars

\* a pull request is opened on the server while the fetch is running: it is
\* created now, later than since_time, gets the next number and goes to the
\* front of the list, moving every older entry one position towards later pages
ServerCreatesPull ==
    /\ pc = "fetch"
    /\ Len(server) < MaxServer
    /\ server' = <<[number |-> Len(server) + 1, created_at |-> IsoZ(MaxTime)]>> \o server
    /\ UNCHANGED <<since_time, page, retries, all_pulls, response, pulls, recent_pulls,
                   requests, sleeps, pc, result>>
    /\ UNCHANGED mainvars

NextLive == Next \/ ServerCreatesPull

\* the fetch against a server whose list grows during the fetch
SpecLive == Init /\ [][NextLive]_vars

\* the program is sequential and blocking: a step that can be taken is taken
FairSpec == Spec /\ WF_vars(Next)

\* ---- vocabulary of the properties ----

\* the instant a created_at string names
InstantOf(e) == e.created_at.instant

\* e was created at or after the window start
Recent(e) == InstantOf(e) >= since_time

\* a sequence of pulls or records is in creation order, newest first
SortedDesc(seq) == \A i, j \in 1..Len(seq) : i < j => InstantOf(seq[i]) >= InstantOf(seq[j])

\* the records of all the pulls of a sequence
RECURSIVE RecordsOf(_)
RecordsOf(ps) ==
    IF ps = <<>> THEN <<>>
    ELSE <<[number |-> Head(ps).number, created_at |-> Head(ps).created_at]>> \o RecordsOf(Tail(ps))

\* the pulls of a sequence created at or after the window start, in order
RecentOf(ps) == SelectSeq(ps, Recent)

\* the longest prefix of a sequence whose pulls are all recent
RecentPrefix(ps) ==
    LET k == CHOOSE n \in 0..Len(ps) :
                 /\ \A i \in 1..n : Recent(ps[i])
                 /\ n < Len(ps) => ~Recent(ps[n + 1])
    IN  SubSeq(ps, 1, k)

\* the last request issued
LastRequest == requests[Len(requests)]

\* this step issues a request for the current page and receives the given outcome
Receives(outcome) == requests' = Append(requests, [page |-> page, outcome |-> outcome])

\* once the function has returned, no request is issued
NoRequestAfterReturn == pc = "returned" => requests' = requests

\* the number of consecutive non-200 outcomes at the end of a log
RECURSIVE FailedRun(_)
FailedRun(log) ==
    IF log = <<>> THEN 0
    ELSE IF log[Len(log)].outcome = "non200"
         THEN 1 + FailedRun(SubSeq(log, 1, Len(log) - 1))
         ELSE 0

\* what the pages answered with 200 in a log contribute, by the window rule
RECURSIVE Contributed(_)
Contributed(log) ==
    IF log = <<>> THEN <<>>
    ELSE Contributed(SubSeq(log, 1, Len(log) - 1)) \o
         (IF log[Len(log)].outcome = "200"
          THEN RecordsOf(RecentPrefix(PageOf(server, log[Len(log)].page)))
          ELSE <<>>)

\* the fetch gave up on a page after a run of non-200 responses
GaveUp == pc = "returned" /\ requests # <<>> /\ LastRequest.outcome = "non200"

\* ---- properties ----

\* C1: a 200 page sorted newest first that holds both recent and older pulls
\* contributes exactly its recent pulls (one created exactly at since_time
\* included), which are a prefix of it, and ends the fetch: no later request.
C1_BoundaryPage ==
    [][ /\ ( /\ Receives("200")
             /\ SortedDesc(pulls')
             /\ \E i \in 1..Len(pulls') : Recent(pulls'[i])
             /\ \E i \in 1..Len(pulls') : ~Recent(pulls'[i]) )
          => /\ recent_pulls' = RecordsOf(RecentOf(pulls'))
             /\ recent_pulls' = RecordsOf(SubSeq(pulls', 1, Len(recent_pulls')))
             /\ all_pulls' = all_pulls \o recent_pulls'
             /\ pc' = "returned"
        /\ NoRequestAfterReturn ]_vars

C1_Witness ==
    /\ pc = "returned"
    /\ requests # <<>> /\ LastRequest.outcome = "200"
    /\ SortedDesc(pulls)
    /\ \E i \in 1..Len(pulls) : InstantOf(pulls[i]) = since_time
    /\ \E i \in 1..Len(pulls) : ~Recent(pulls[i])
    /\ Len(recent_pulls) >= 1

\* C2: for a sorted server answering every request with 200, the returned
\* sequence is the list of all recent pulls of the server, in server order,
\* wherever the window boundary falls relative to the page boundaries.
C2_CompleteResult ==
    ( /\ pc = "returned"
      /\ SortedDesc(server)
      /\ \A i \in 1..Len(requests) : requests[i].outcome = "200" )
    => result = RecordsOf(RecentOf(server))

C2_Witness ==
    /\ pc = "returned"
    /\ SortedDesc(server)
    /\ \A i \in 1..Len(requests) : requests[i].outcome = "200"
    /\ Len(RecentOf(server)) = per_page
    /\ Len(server) > per_page
    /\ result = RecordsOf(RecentOf(server))

\* C3: every record of all_pulls, and of the returned value, was created at or
\* after since_time, whatever the pages hold and whatever the responses are.
C3_OnlyRecent ==
    /\ \A i \in 1..Len(all_pulls) : InstantOf(all_pulls[i]) >= since_time
    /\ \A i \in 1..Len(result) : InstantOf(result[i]) >= since_time

C3_Witness ==
    /\ ~SortedDesc(server)
    /\ \E i \in 1..Len(requests) : requests[i].outcome = "non200"
    /\ \E i \in 1..Len(server) : ~Recent(server[i])
    /\ pc = "returned"
    /\ Len(result) >= 1

\* C4: with a fixed server list of unique numbers, no PR number occurs twice
\* in all_pulls or in the returned value, whatever pages were retried.
C4_UniqueNumbers ==
    /\ \A i, j \in 1..Len(all_pulls) : i # j => all_pulls[i].number # all_pulls[j].number
    /\ \A i, j \in 1..Len(result) : i # j => result[i].number # result[j].number

C4_Witness ==
    /\ \E i \in 1..Len(requests) :
          /\ requests[i].outcome = "non200"
          /\ \E j \in (i + 1)..Len(requests) :
                /\ requests[j].page = requests[i].page
                /\ requests[j].outcome = "200"
    /\ Len(all_pulls) > per_page

\* C5: with a sorted server, all_pulls is sorted newest first in every state,
\* and so is the returned value.
C5_SortedResult ==
    SortedDesc(server) => SortedDesc(all_pulls) /\ SortedDesc(result)

C5_Witness ==
    /\ SortedDesc(server)
    /\ pc = "returned"
    /\ Len(result) > per_page
    /\ InstantOf(result[1]) > InstantOf(result[Len(result)])

\* C6: a non-empty 200 page whose pulls are all recent is appended in full,
\* the fetch goes on, and the request that follows is for the next page number.
C6_FullPageContinues ==
    [][ /\ ( /\ Receives("200")
             /\ pulls' # <<>>
             /\ \A i \in 1..Len(pulls') : Recent(pulls'[i]) )
          => /\ all_pulls' = all_pulls \o RecordsOf(pulls')
             /\ page' = page + 1
             /\ pc' = "fetch"
        /\ requests' # requests
             => /\ Len(requests') = Len(requests) + 1
                /\ requests'[Len(requests')].page = page
                /\ SubSeq(requests', 1, Len(requests)) = requests ]_vars

C6_Witness ==
    /\ Len(requests) >= 2
    /\ requests[Len(requests) - 1].outcome = "200"
    /\ requests[Len(requests)].page = requests[Len(requests) - 1].page + 1
    /\ Len(all_pulls) >= 1
    /\ Len(all_pulls) < per_page

\* C7: an empty 200 page ends the fetch, and the value returned is the
\* sequence accumulated before it, unchanged.
C7_EmptyPageStops ==
    [][ /\ (Receives("200") /\ pulls' = <<>>)
          => /\ pc' = "returned"
             /\ all_pulls' = all_pulls
             /\ result' = all_pulls
        /\ NoRequestAfterReturn ]_vars

C7_Witness ==
    /\ pc = "returned"
    /\ requests # <<>> /\ LastRequest.outcome = "200"
    /\ pulls = <<>>
    /\ Len(result) >= 1
    /\ result = all_pulls

\* C8 as stated: a page that keeps failing is requested once and then retried
\* 5 times, so the fetch gives up after 6 consecutive failed requests.
C8_FiveRetries ==
    GaveUp => FailedRun(requests) - 1 = 5

\* C8 as amended: a page that keeps failing is requested 5 times in all, the
\* first request and 4 retries of the same page number, and never more.
C8_FourRetries ==
    /\ FailedRun(requests) - 1 <= 4
    /\ GaveUp => FailedRun(requests) - 1 = 4
    /\ \A i \in 1..FailedRun(requests) :
          requests[Len(requests) + 1 - i].page = LastRequest.page
    /\ (pc = "fetch" /\ requests # <<>> /\ LastRequest.outcome = "non200")
          => page = LastRequest.page

C8_Witness ==
    /\ GaveUp
    /\ FailedRun(requests) = 5
    /\ LastRequest.page > 1

\* C9: when the retries of a page are exhausted the function returns normally
\* with exactly the records accumulated from the pages answered before; the
\* value is empty only if those pages contributed nothing.
C9_PartialResult ==
    [][ (Receives("non200") /\ retries' = 0)
          => /\ pc' = "returned"
             /\ all_pulls' = all_pulls
             /\ result' = all_pulls
             /\ result' = Contributed(requests) ]_vars

C9_Witness ==
    /\ GaveUp
    /\ retries = 0
    /\ Len(result) >= per_page
    /\ result = Contributed(requests)

\* C10: a transport failure or a 200 response with a malformed body ends the
\* fetch at once, with no retry, and the value returned is empty whatever had
\* been accumulated.
C10_ErrorReturnsEmpty ==
    [][ /\ (Receives("transport") \/ Receives("badjson"))
          => /\ pc' = "returned"
             /\ result' = <<>>
        /\ NoRequestAfterReturn ]_vars

C10_Witness ==
    /\ pc = "returned"
    /\ requests # <<>> /\ LastRequest.outcome \in {"transport", "badjson"}
    /\ Len(all_pulls) >= 1
    /\ \E i \in 1..Len(requests) : requests[i].outcome = "non200" /\ requests[i].page = LastRequest.page
    /\ result = <<>>

\* the number of non-200 outcomes logged for page p
RECURSIVE FailuresOn(_, _)
FailuresOn(log, p) ==
    IF log = <<>> THEN 0
    ELSE FailuresOn(SubSeq(log, 1, Len(log) - 1), p) +
         (IF log[Len(log)].outcome = "non200" /\ log[Len(log)].page = p THEN 1 ELSE 0)

\* the fetch ended for one of the four reasons the loop has
StoppedForAReason ==
    /\ requests # <<>>
    /\ \/ LastRequest.outcome = "200" /\ pulls = <<>>
       \/ /\ LastRequest.outcome = "200"
          /\ pulls # <<>>
          /\ \E i \in 1..Len(pulls) :
                /\ ~Recent(pulls[i])
                /\ \A k \in 1..Len(result) : result[k].number # pulls[i].number
       \/ LastRequest.outcome = "non200" /\ FailedRun(requests) = 5
       \/ LastRequest.outcome \in {"transport", "badjson"}

\* C13: with a finite server list and every request answered, whatever the
\* answers are, the fetch eventually returns; and it has returned only after
\* an empty page, a partially kept page, exhausted retries or a transport or
\* JSON error.
C13_Terminates ==
    /\ <>(pc = "returned")
    /\ [](pc = "returned" => StoppedForAReason)

C13_Witness ==
    /\ pc = "returned"
    /\ page > 1
    /\ \E i \in 1..Len(requests) : requests[i].outcome = "non200"
    /\ LastRequest.outcome = "200"
    /\ pulls # <<>>

\* C14: the retry budget is per page: after a 200 response it is 5 again, so
\* while fetching it is 5 less the current run of non-200 responses, whatever
\* failed on earlier pages, and a run of non-200 responses never exceeds 5.
C14_BudgetPerPage ==
    /\ FailedRun(requests) <= 5
    /\ pc = "fetch" => retries = 5 - FailedRun(requests)
    /\ (requests # <<>> /\ LastRequest.outcome = "200") => retries = 5
    /\ GaveUp => FailedRun(requests) = 5

C14_Witness ==
    /\ GaveUp
    /\ LastRequest.page = 2
    /\ FailuresOn(requests, 1) = 4
    /\ FailuresOn(requests, 2) = 5

\* C15: a non-200 response leaves the page number and all_pulls as they are
\* and takes one from the retry counter; the page number changes only by +1,
\* in the step that receives a non-empty 200 page kept in full.
C15_PageFrame ==
    [][ /\ Receives("non200")
          => /\ page' = page
             /\ all_pulls' = all_pulls
             /\ retries' = retries - 1
        /\ page' # page
          => /\ page' = page + 1
             /\ Receives("200")
             /\ pulls' # <<>>
             /\ Len(all_pulls') - Len(all_pulls) = Len(pulls') ]_vars

C15_Witness ==
    /\ requests # <<>> /\ LastRequest.outcome = "non200"
    /\ LastRequest.page = 2
    /\ page = 2
    /\ retries = 4
    /\ Len(all_pulls) = per_page

\* C16: a 200 response that carries a page ends the fetch exactly when the
\* page is empty or fewer records were kept than it holds; after a page
\* shorter than per_page that is kept in full, the next page is requested and
\* its empty 200 response ends the fetch.
C16_StopRule ==
    [][ /\ Receives("200")
          => ( pc' = "returned"
               <=> \/ pulls' = <<>>
                   \/ Len(all_pulls') - Len(all_pulls) < Len(pulls') )
        /\ ( /\ Receives("200")
             /\ requests # <<>>
             /\ pulls # <<>>
             /\ Len(pulls) < per_page )
          => /\ pulls' = <<>>
             /\ pc' = "returned"
             /\ \E i \in 1..Len(requests) :
                   /\ requests[i].outcome = "200"
                   /\ requests[i].page + 1 = page
                   /\ \A j \in (i + 1)..Len(requests) : requests[j].page = page ]_vars

C16_Witness ==
    /\ pc = "returned"
    /\ Len(requests) >= 2
    /\ LastRequest.outcome = "200"
    /\ pulls = <<>>
    /\ Len(server) % per_page # 0
    /\ Len(result) = Len(server)
    /\ LastRequest.page = (Len(server) \div per_page) + 2

\* C17: from any non-empty 200 page, sorted or not, the records kept are the
\* longest prefix of recent pulls; a recent pull after the first older one is
\* left out, and a page holding an older pull ends the fetch.
C17_ScanStopsAtFirstOld ==
    [][ (Receives("200") /\ pulls' # <<>>)
          => /\ recent_pulls' = RecordsOf(RecentPrefix(pulls'))
             /\ all_pulls' = all_pulls \o RecordsOf(RecentPrefix(pulls'))
             /\ (\E i \in 1..Len(pulls') : ~Recent(pulls'[i])) => pc' = "returned" ]_vars

C17_Witness ==
    /\ pc = "returned"
    /\ requests # <<>> /\ LastRequest.outcome = "200"
    /\ \E i, j \in 1..Len(pulls) :
          /\ i < j
          /\ ~Recent(pulls[i])
          /\ Recent(pulls[j])
          /\ \A k \in 1..Len(result) : result[k].number # pulls[j].number
    /\ Len(result) >= 1

\* the pauses made after a fully kept page, in order
PagePauses == SelectSeq(sleeps, LAMBDA d : d # 500)

\* C18: while fetching, every response so far was followed by one pause: 5 s
\* after a non-200 response that is retried and 8 s + n/100 after a fully kept
\* page, n being the records accumulated; the pauses between pages never
\* decrease, and the response that ends the fetch is followed by none.
C18_Pauses ==
    /\ [](pc = "fetch" => Len(sleeps) = Len(requests))
    /\ [](pc = "returned" => Len(sleeps) = Len(requests) - 1)
    /\ [](\A i, j \in 1..Len(PagePauses) : i < j => PagePauses[i] <= PagePauses[j])
    /\ [][ /\ (Receives("non200") /\ pc' = "fetch") => sleeps' = Append(sleeps, 500)
           /\ (Receives("200") /\ pc' = "fetch")
                => sleeps' = Append(sleeps, 800 + Len(all_pulls'))
           /\ pc' = "returned" => sleeps' = sleeps ]_vars

C18_Witness ==
    /\ pc = "returned"
    /\ Len(PagePauses) = 2
    /\ PagePauses[1] = 800 + per_page
    /\ PagePauses[2] > PagePauses[1]
    /\ \E i \in 1..Len(sleeps) : sleeps[i] = 500 /\ i > 1

\* the PR numbers of a sequence of records
NumbersOf(seq) == { seq[i].number : i \in 1..Len(seq) }

\* C12: also when pull requests are opened on the server between two page
\* requests of a fetch, the returned sequence holds no PR number twice.
C12_UniqueWhenListChanges ==
    pc = "returned" => Cardinality(NumbersOf(result)) = Len(result)

\* the report file of today was written by this run
ReportWritten == fs.report # <<>> /\ fs.report # ReportText("earlier")

\* line s was printed by the main block
Printed(s) == \E i \in 1..Len(stdout) : stdout[i] = s

\* C11: when the fetch returns an empty sequence, the program prints
\* "No recent pull requests found." and exits with status 0; the
\* text-generation service is never called and the file system is left as
\* it was.
C11_EmptyExits ==
    /\ []( (pc = "returned" /\ result = <<>>)
             => /\ ai_calls = 0
                /\ main \in {"fetch", "exit"}
                /\ fs \in InitialFileSystems
                /\ main = "exit"
                     => /\ exit_status = 0
                        /\ stdout = <<"No recent pull requests found.">> )
    /\ [][ /\ (pc' = "returned" /\ result' = <<>>) => (fs' = fs /\ ai_calls' = 0)
           /\ fs' # fs => result # <<>> ]_vars
    /\ (pc = "returned" /\ result = <<>>) ~> (main = "exit" /\ exit_status = 0)

C11_Witness ==
    /\ main = "exit"
    /\ result = <<>>
    /\ Len(all_pulls) >= 1
    /\ Printed("No recent pull requests found.")
    /\ fs.dirs = {}

\* the steps of the main block, in the order they can follow each other
MainOrder ==
    { <<"fetch", "exit">>, <<"fetch", "ai">>, <<"ai", "write">>, <<"ai", "fault">>,
      <<"write", "exit">> }

\* C19: a run goes through fetch, digest, text-generation call and report
\* write in that order: the service is called at most once, after the fetch
\* returned a non-empty sequence and its digest was rendered; the report is
\* written only after the call returned; a failed call ends the run with an
\* unhandled fault (status 1) and the file system as it was.
C19_RunOrder ==
    /\ [](ai_calls <= 1)
    /\ [](ai_calls = 1
            => /\ pc = "returned"
               /\ result # <<>>
               /\ Len(summary_string) = Len(result) + 1)
    /\ [](ReportWritten
            => /\ main = "exit"
               /\ ai_calls = 1
               /\ Printed("AI Analysis of Recent Pull Requests:")
               /\ fs.report[2] = ai_analysis
               /\ ai_analysis # "")
    /\ [](main = "fault"
            => /\ exit_status = 1
               /\ ai_calls = 1
               /\ fs \in InitialFileSystems)
    /\ [][ /\ main' # main => <<main, main'>> \in MainOrder
           /\ (main' # main /\ main = "fetch") => pc = "returned"
           /\ fs' # fs => (main = "write" /\ main' = "exit")
           /\ main \notin {"exit", "fault"} ]_vars

C19_Witness ==
    /\ main = "fault"
    /\ exit_status = 1
    /\ ai_calls = 1
    /\ Len(result) >= 1
    /\ fs.report = ReportText("earlier")

====
